---- MODULE Spec2Model ----
(***************************************************************************)
(* Model of the C wrapper around the TensorFlow Lite C API, the edgetpu    *)
(* delegate API and libusb (wrapper.c of the tflite plugin and of the      *)
(* object_detection_tflite plugin).                                        *)
(*                                                                         *)
(* The native libraries are modelled as a heap of native objects and as    *)
(* inputs drawn per call (what the runtime answers).  Every wrapper        *)
(* function is one action; the native calls it makes are recorded, in      *)
(* order, in the `events' of the record of the last call.                  *)
(***************************************************************************)
EXTENDS Integers, Sequences, FiniteSets, TLC

VARIABLES
  variant,    \* which wrapper.c is linked: "tflite" or "odt"
  handle,     \* "none" | "allocated" | "freed" : the CDetector allocation
  d,          \* the CDetector fields
  heap,       \* native objects created so far (pointer = index, 0 = NULL)
  reported,   \* the caller's cell behind size_t *input_tensor_size
  loadRets,   \* return codes of the c_detector_load_model calls so far
  crashed,    \* the process died on an undefined call
  last,       \* record of the last detector call
  usbDevices, \* the devices libusb enumerates
  probe,      \* record of the last c_probe_device call
  edgetpus,   \* the array edgetpu_list_devices returns
  poke        \* record of the last c_poke_devices call

vars == <<variant, handle, d, heap, reported, loadRets, crashed, last,
          usbDevices, probe, edgetpus, poke>>

detVars == <<variant, handle, d, heap, reported, loadRets, crashed, last>>
usbVars == <<usbDevices, probe>>
pokeVars == <<edgetpus, poke>>

----------------------------------------------------------------------------
(* Bounds of the model *)

MaxLoads == 2
MaxDevices == 2
MaxPathLen == 2
MaxEdgeTpus == 3

----------------------------------------------------------------------------
(* Program constants *)

NULL == 0

ERROR_CREATE_FROM_FILE == 10000
ERROR_INTERPRETER_CREATE == 10001
ERROR_INPUT_TENSOR_COUNT == 10002
ERROR_INPUT_TENSOR_TYPE == 10003
ERROR_OUTPUT_TENSOR_COUNT == 10004
ERROR_EDGETPU_DELEGATE_CREATE == 10005
ODT_ERROR_EDGETPU_DELEGATE_CREATE == 10002
ERROR_OUTPUT_TENSOR_TYPE == 20000

ERROR_USB_INIT == 20000
ERROR_USB_GET_DEVICE_LIST == 20001
ERROR_USB_GET_PORT_NUMBERS == 20002
ERROR_USB_OPEN_DEVICE == 20003
ERROR_USB_NOT_FOUND == 20004
kMaxUsbPathDepth == 7

kTfLiteUInt8 == 3
kTfLiteFloat32 == 1
kTfLiteOk == 0
kTfLiteError == 1
NumOutputs == 4

Unwritten == -1

----------------------------------------------------------------------------
(* The mocked runtime: what one model file makes the runtime answer *)

NoModel ==
  [modelOk |-> FALSE, device |-> FALSE, delegateOk |-> FALSE,
   interpOk |-> FALSE, allocStatus |-> 0, inCount |-> 0, inType |-> 0,
   inSize |-> 0, outCount |-> 0, outTypes |-> <<0, 0, 0, 0>>]

Shape(inCount, inType, inSize, outCount, outTypes) ==
  [inCount |-> inCount, inType |-> inType, inSize |-> inSize,
   outCount |-> outCount, outTypes |-> outTypes]

\* The model files of the runs: what the runtime reports of their tensors.
\* outTypes[i] with i > outCount is what the memory behind the outputs holds.
ModelFiles ==
  { Shape(1, 3, 2, 4, <<1, 1, 1, 1>>),
    Shape(1, 3, 3, 4, <<3, 3, 1, 3>>),
    Shape(1, 3, 2, 4, <<3, 3, 3, 3>>),
    Shape(2, 3, 2, 4, <<1, 1, 1, 1>>),
    Shape(1, 1, 2, 4, <<1, 1, 1, 1>>),
    Shape(1, 3, 2, 3, <<1, 1, 1, 1>>),
    Shape(1, 1, 3, 3, <<3, 3, 3, 3>>),
    Shape(2, 1, 3, 3, <<1, 1, 1, 1>>) }

LoadInput(modelOk, device, delegateOk, interpOk, allocStatus, f) ==
  [modelOk |-> modelOk, device |-> device, delegateOk |-> delegateOk,
   interpOk |-> interpOk, allocStatus |-> allocStatus,
   inCount |-> f.inCount, inType |-> f.inType, inSize |-> f.inSize,
   outCount |-> f.outCount, outTypes |-> f.outTypes]

NoShape == Shape(0, 0, 0, 0, <<0, 0, 0, 0>>)

\* The runs of the loader: the answers that a run never reads are fixed, so
\* that each run is drawn once.
LoadInputs ==
  { LoadInput(FALSE, dv, FALSE, FALSE, kTfLiteOk, NoShape) : dv \in BOOLEAN }
  \cup { LoadInput(TRUE, TRUE, FALSE, FALSE, kTfLiteOk, NoShape) }
  \cup { LoadInput(TRUE, dv, dv, FALSE, kTfLiteOk, NoShape) : dv \in BOOLEAN }
  \cup { LoadInput(TRUE, dv, dv, TRUE, kTfLiteError, NoShape) : dv \in BOOLEAN }
  \cup { LoadInput(TRUE, dv, dv, TRUE, kTfLiteOk, f) :
           dv \in BOOLEAN, f \in ModelFiles }

BufSizes == {2, 3}
InvokeStatuses == {kTfLiteOk, kTfLiteError}

\* What the runtime tells the registered reporter when one of its calls
\* fails: nothing, a message without conversions, or a message with
\* conversions such as "%s:%d %s != %s (%d != %d)".
Reports == {"none", "plain", "format"}

\* Outcomes of a call whose behaviour is undefined (a null or dangling
\* pointer, an index out of range, a va_list handed to fprintf as if it were
\* the arguments): the process dies, or the call comes back.
\* A wrapper function reaches at most one kind of undefined call before it
\* returns, so one choice per call covers every combination.
UBChoices == {"crash", "survive"}

\* The indices the callers of the tensor getters pass.
TensorIndices == {0, 3}

----------------------------------------------------------------------------
(* Native objects and tensors *)

Obj(kind) == [kind |-> kind, deleted |-> 0, deleg |-> NULL, m |-> NoModel]

Ev(fn, arg) == [fn |-> fn, arg |-> arg]

NullTensor == [interp |-> NULL, out |-> FALSE, idx |-> 0]

Destroy(h, p) == [h EXCEPT ![p].deleted = @ + 1]

Live(h, p) == p # NULL /\ h[p].deleted = 0

TfLiteInterpreterGetInputTensor(p, i) == [interp |-> p, out |-> FALSE, idx |-> i]

TfLiteInterpreterGetOutputTensor(p, i) == [interp |-> p, out |-> TRUE, idx |-> i]

\* Output i of the mocked models holds i + 1 values of 4 bytes.
TfLiteTensorByteSize(h, t) ==
  IF t.out THEN 4 * (t.idx + 1) ELSE h[t.interp].m.inSize

TfLiteTensorType(h, t) ==
  IF t.out THEN h[t.interp].m.outTypes[t.idx + 1] ELSE h[t.interp].m.inType

TfLiteTensorData(h, t) ==
  t.interp * 100 + (IF t.out THEN 50 ELSE 0) + t.idx + 1

TfLiteTensorCopyFromBuffer(h, t, size) ==
  IF size = TfLiteTensorByteSize(h, t) THEN kTfLiteOk ELSE kTfLiteError

TfLiteInterpreterInvoke(h, p, status) ==
  IF h[p].m.allocStatus # kTfLiteOk THEN kTfLiteError ELSE status

----------------------------------------------------------------------------
(* CDetector *)

NullDetector == [interpreter |-> NULL, input_tensor |-> NullTensor, delegate |-> NULL]

NoOut == [data |-> <<Unwritten, Unwritten, Unwritten, Unwritten>>,
          size |-> <<Unwritten, Unwritten, Unwritten, Unwritten>>]

NoCall ==
  [op |-> "none", ret |-> 0, outcome |-> "returned", events |-> <<>>,
   m |-> NoModel, bufSize |-> 0, invoke |-> 0,
   out |-> NoOut, pre |-> NullDetector, preHeap |-> <<>>,
   preReported |-> Unwritten, index |-> 0, tensor |-> NullTensor]

\* A status test that takes only negative values for errors.
status_failed_negative(ret) == ret < 0

\* The test (ret = ...) != 0 on a status of the runtime.
status_failed(ret) == ret # 0

\* The number of conversions in the message of a report.
Conversions(report) == IF report = "format" THEN 6 ELSE 0

\* reporter(): it builds the format "TFLITE ERROR: " + format in a buffer
\* and calls fprintf(stderr, f, args) with the va_list in the place of the
\* arguments.  With conversions in the format fprintf reads arguments that
\* were never passed; without, it prints the text and the buffer is freed.
reporter(report, ub) ==
  [outcome |-> IF report = "format" /\ ub = "crash" THEN "crashed" ELSE "returned",
   events  |-> IF report = "none" THEN <<>>
               ELSE << Ev("reporter", Conversions(report)),
                       Ev("fprintf", Conversions(report)) >>]

\* A wrapper call that returned ret.
Res(dd, h, sz, ret, events) ==
  [d |-> dd, heap |-> h, size |-> sz, ret |-> ret, outcome |-> "returned",
   events |-> events]

\* A wrapper call in which the process died.
Died(dd, h, sz, events) ==
  [d |-> dd, heap |-> h, size |-> sz, ret |-> 0, outcome |-> "crashed",
   events |-> events]

DelegateError(v) ==
  IF v = "tflite" THEN ERROR_EDGETPU_DELEGATE_CREATE
  ELSE ODT_ERROR_EDGETPU_DELEGATE_CREATE

\* Shape checks that count the outputs before they look at the input's type.
load_model_shape_outputs_first(d3, h4, sz0, m, e5) ==
  LET e6 == Append(e5, Ev("TfLiteInterpreterGetInputTensorCount", d3.interpreter))
  IN  IF m.inCount # 1 THEN Res(d3, h4, sz0, ERROR_INPUT_TENSOR_COUNT, e6)
      ELSE
      LET t  == TfLiteInterpreterGetInputTensor(d3.interpreter, 0)
          d4 == [d3 EXCEPT !.input_tensor = t]
          sz == TfLiteTensorByteSize(h4, t)
          e7 == e6 \o << Ev("TfLiteInterpreterGetInputTensor", d3.interpreter),
                         Ev("TfLiteTensorByteSize", t.interp),
                         Ev("TfLiteInterpreterGetOutputTensorCount",
                            d4.interpreter) >>
      IN  IF m.outCount # 4
          THEN Res(d4, h4, sz, ERROR_OUTPUT_TENSOR_COUNT, e7)
          ELSE
          LET e8 == Append(e7, Ev("TfLiteTensorType", t.interp))
          IN  IF TfLiteTensorType(h4, t) # 3
              THEN Res(d4, h4, sz, ERROR_INPUT_TENSOR_TYPE, e8)
              ELSE Res(d4, h4, sz, 0, e8)

\* The shape checks of the tflite wrapper, after tensor allocation succeeded.
load_model_shape(d3, h4, sz0, m, e5) ==
  LET e6 == Append(e5, Ev("TfLiteInterpreterGetInputTensorCount", d3.interpreter))
  IN  IF m.inCount # 1 THEN Res(d3, h4, sz0, ERROR_INPUT_TENSOR_COUNT, e6)
      ELSE
      LET t  == TfLiteInterpreterGetInputTensor(d3.interpreter, 0)
          d4 == [d3 EXCEPT !.input_tensor = t]
          sz == TfLiteTensorByteSize(h4, t)
          e7 == e6 \o << Ev("TfLiteInterpreterGetInputTensor", d3.interpreter),
                         Ev("TfLiteTensorByteSize", t.interp),
                         Ev("TfLiteTensorType", t.interp) >>
      IN  IF TfLiteTensorType(h4, t) # 3
          THEN Res(d4, h4, sz, ERROR_INPUT_TENSOR_TYPE, e7)
          ELSE
          LET e8 == Append(e7, Ev("TfLiteInterpreterGetOutputTensorCount",
                                  d4.interpreter))
          IN  IF m.outCount # 4
              THEN Res(d4, h4, sz, ERROR_OUTPUT_TENSOR_COUNT, e8)
              ELSE Res(d4, h4, sz, 0, e8)

\* A loader that creates the interpreter options before it looks at the model.
load_model_no_file_options_first(d0, h0, sz0) ==
  Res(d0, Append(h0, Obj("options")), sz0, ERROR_CREATE_FROM_FILE,
      << Ev("TfLiteModelCreateFromFileWithErrorReporter", NULL),
         Ev("TfLiteInterpreterOptionsCreate", Len(h0) + 1) >>)

\* The exit of c_detector_load_model when the model could not be created.
load_model_no_file(d0, h0, sz0) ==
  Res(d0, h0, sz0, ERROR_CREATE_FROM_FILE,
      << Ev("TfLiteModelCreateFromFileWithErrorReporter", NULL) >>)

\* A loader that registers the delegate once the interpreter exists.
create_then_register(e2, device, delegate, interp) ==
  IF device
  THEN e2 \o << Ev("TfLiteInterpreterCreate", interp),
                Ev("TfLiteInterpreterOptionsAddDelegate", delegate) >>
  ELSE Append(e2, Ev("TfLiteInterpreterCreate", interp))

\* The calls of c_detector_load_model from the registration of the delegate
\* to the creation of the interpreter.
register_then_create(e2, device, delegate, interp) ==
  IF device
  THEN e2 \o << Ev("TfLiteInterpreterOptionsAddDelegate", delegate),
                Ev("TfLiteInterpreterCreate", interp) >>
  ELSE Append(e2, Ev("TfLiteInterpreterCreate", interp))

\* c_detector_load_model of variant v on fields d0, heap h0, size cell sz0,
\* with the runtime answering as m says and reporting its failures as report
\* says.  The callbacks of a runtime call are listed after the call.
load_model(v, d0, h0, sz0, m, report, ub) ==
  IF ~m.modelOk
  THEN IF reporter(report, ub).outcome = "crashed"
       THEN Died(d0, h0, sz0,
                 << Ev("TfLiteModelCreateFromFileWithErrorReporter", NULL) >>
                   \o reporter(report, ub).events)
       ELSE [load_model_no_file(d0, h0, sz0)
               EXCEPT !.events = @ \o reporter(report, ub).events]
  ELSE
  LET model   == Len(h0) + 1
      options == Len(h0) + 2
      h1 == h0 \o << Obj("model"), Obj("options") >>
      e1 == << Ev("TfLiteModelCreateFromFileWithErrorReporter", model),
               Ev("TfLiteInterpreterOptionsCreate", options),
               Ev("TfLiteInterpreterOptionsSetNumThreads", options),
               Ev("TfLiteInterpreterOptionsSetErrorReporter", options) >>
      created == IF m.device /\ m.delegateOk THEN Len(h1) + 1 ELSE NULL
      h2 == IF created # NULL THEN Append(h1, Obj("delegate")) ELSE h1
      d1 == IF m.device THEN [d0 EXCEPT !.delegate = created] ELSE d0
      e2 == IF m.device
            THEN Append(e1, Ev("edgetpu_create_delegate", created)) ELSE e1
  IN  IF m.device /\ d1.delegate = NULL
      THEN Res(d1, h2, sz0, DelegateError(v), e2)
      ELSE
      LET interp == IF m.interpOk THEN Len(h2) + 1 ELSE NULL
          h3 == IF m.interpOk
                THEN Append(h2, [kind |-> "interpreter", deleted |-> 0,
                                 deleg |-> IF m.device THEN d1.delegate ELSE NULL,
                                 m |-> m])
                ELSE h2
          d2 == [d1 EXCEPT !.interpreter = interp]
          e4 == register_then_create(e2, m.device, d1.delegate, interp)
      IN  IF d2.interpreter = NULL
          THEN IF reporter(report, ub).outcome = "crashed"
               THEN Died(d1, h3, sz0, e4 \o reporter(report, ub).events)
               ELSE Res(d2, h3, sz0, ERROR_INTERPRETER_CREATE,
                        e4 \o reporter(report, ub).events)
          ELSE
          LET h4 == Destroy(Destroy(h3, model), options)
              e5 == e4 \o << Ev("TfLiteModelDelete", model),
                             Ev("TfLiteInterpreterOptionsDelete", options),
                             Ev("TfLiteInterpreterAllocateTensors",
                                d2.interpreter) >>
          IN  IF status_failed(m.allocStatus)
              THEN IF reporter(report, ub).outcome = "crashed"
                   THEN Died(d2, h4, sz0, e5 \o reporter(report, ub).events)
                   ELSE Res(d2, h4, sz0, m.allocStatus,
                            e5 \o reporter(report, ub).events)
              ELSE IF v = "tflite" THEN load_model_shape(d2, h4, sz0, m, e5)
              ELSE Res(d2, h4, sz0, 0, e5)

DetRes(ret, outcome, events, out) ==
  [ret |-> ret, outcome |-> outcome, events |-> events, out |-> out]

\* The calls TfLiteTensorType(t0) != 1 && ... && TfLiteTensorType(t3) != 1
\* makes: the conjunction stops at the first tensor of type 1.
RECURSIVE TypeChecks(_, _, _)
TypeChecks(h, ts, i) ==
  IF i > Len(ts) THEN <<>>
  ELSE IF TfLiteTensorType(h, ts[i]) = 1
       THEN << Ev("TfLiteTensorType", ts[i].interp) >>
       ELSE << Ev("TfLiteTensorType", ts[i].interp) >> \o TypeChecks(h, ts, i + 1)

\* Views that report the first output's size for every output.
detect_views_first_size(h, ts) ==
  [data |-> [i \in 1..NumOutputs |-> TfLiteTensorData(h, ts[i])],
   size |-> [i \in 1..NumOutputs |-> TfLiteTensorByteSize(h, ts[1])]]

\* What c_detector_detect writes through t0_data..t3_data, t0_size..t3_size.
detect_views(h, ts) ==
  [data |-> [i \in 1..NumOutputs |-> TfLiteTensorData(h, ts[i])],
   size |-> [i \in 1..NumOutputs |-> TfLiteTensorByteSize(h, ts[i])]]

\* A detect that hands out the data pointers before it checks the types.
detect_type_error_after_data(h, ts, eT) ==
  DetRes(ERROR_OUTPUT_TENSOR_TYPE, "returned", eT,
         [NoOut EXCEPT !.data = detect_views(h, ts).data])

\* The exit of c_detector_detect when no output tensor has type 1.
detect_type_error(h, ts, eT) ==
  DetRes(ERROR_OUTPUT_TENSOR_TYPE, "returned", eT, NoOut)

\* A type test that rejects the outputs as soon as one of them is not of
\* type 1.
output_types_rejected_any(h, ts) ==
  \/ TfLiteTensorType(h, ts[1]) # 1 \/ TfLiteTensorType(h, ts[2]) # 1
  \/ TfLiteTensorType(h, ts[3]) # 1 \/ TfLiteTensorType(h, ts[4]) # 1

\* The test of c_detector_detect on the types of t0..t3.
output_types_rejected(h, ts) ==
  /\ TfLiteTensorType(h, ts[1]) # 1 /\ TfLiteTensorType(h, ts[2]) # 1
  /\ TfLiteTensorType(h, ts[3]) # 1 /\ TfLiteTensorType(h, ts[4]) # 1

\* The second half of c_detector_detect, after a successful invoke.
detect_outputs(d0, h, ub, eI) ==
  LET p   == d0.interpreter
      ts  == [i \in 1..NumOutputs |-> TfLiteInterpreterGetOutputTensor(p, i - 1)]
      bad == { i \in 1..NumOutputs : i - 1 >= h[p].m.outCount }
      firstBad == CHOOSE i \in bad : \A j \in bad : i <= j
      eG(n) == eI \o [i \in 1..n |-> Ev("TfLiteInterpreterGetOutputTensor", p)]
  IN  IF bad # {} /\ ub = "crash"
      THEN DetRes(0, "crashed", eG(firstBad), NoOut)
      ELSE
      LET eT == eG(NumOutputs) \o TypeChecks(h, ts, 1)
      IN  IF output_types_rejected(h, ts)
          THEN detect_type_error(h, ts, eT)
          ELSE DetRes(0, "returned",
                      eT \o [i \in 1..NumOutputs |-> Ev("TfLiteTensorData", p)]
                         \o [i \in 1..NumOutputs |-> Ev("TfLiteTensorByteSize", p)],
                      detect_views(h, ts))

\* A failed TfLiteInterpreterInvoke: the runtime reports the failure to the
\* reporter before it hands back its status.
invoke_failed(ret, report, ub, eI) ==
  IF reporter(report, ub).outcome = "crashed"
  THEN DetRes(0, "crashed", eI \o reporter(report, ub).events, NoOut)
  ELSE DetRes(ret, "returned", eI \o reporter(report, ub).events, NoOut)

\* c_detector_detect on fields d0 with a buffer of bufSize bytes; status is
\* what the runtime's invoke answers, report what it tells the reporter when
\* it fails, ub what the undefined calls do.
detect(d0, h, bufSize, status, report, ub) ==
  LET t  == d0.input_tensor
      eC == << Ev("TfLiteTensorCopyFromBuffer", t.interp) >>
      eI == Append(eC, Ev("TfLiteInterpreterInvoke", d0.interpreter))
  IN  IF t = NullTensor
      THEN IF ub = "crash"
           THEN DetRes(0, "crashed", eC, NoOut)
           ELSE DetRes(kTfLiteError, "returned", eC, NoOut)
      ELSE IF status_failed(TfLiteTensorCopyFromBuffer(h, t, bufSize))
      THEN DetRes(TfLiteTensorCopyFromBuffer(h, t, bufSize), "returned", eC, NoOut)
      ELSE IF d0.interpreter = NULL
      THEN IF ub = "crash"
           THEN DetRes(0, "crashed", eI, NoOut)
           ELSE DetRes(kTfLiteError, "returned", eI, NoOut)
      ELSE IF status_failed(TfLiteInterpreterInvoke(h, d0.interpreter, status))
      THEN invoke_failed(TfLiteInterpreterInvoke(h, d0.interpreter, status),
                         report, ub, eI)
      ELSE detect_outputs(d0, h, ub, eI)

\* c_detector_invoke_interpreter of the object_detection_tflite wrapper.
invoke_interpreter(d0, h, status, report, ub) ==
  LET eI == << Ev("TfLiteInterpreterInvoke", d0.interpreter) >>
  IN  IF d0.interpreter = NULL
      THEN IF ub = "crash"
           THEN DetRes(0, "crashed", eI, NoOut)
           ELSE DetRes(kTfLiteError, "returned", eI, NoOut)
      ELSE IF status_failed(TfLiteInterpreterInvoke(h, d0.interpreter, status))
      THEN invoke_failed(TfLiteInterpreterInvoke(h, d0.interpreter, status),
                         report, ub, eI)
      ELSE DetRes(kTfLiteOk, "returned", eI, NoOut)

GetRes(ret, tensor, outcome, events) ==
  [ret |-> ret, tensor |-> tensor, outcome |-> outcome, events |-> events]

\* c_detector_input_tensor_count of the object_detection_tflite wrapper.
input_tensor_count(d0, h, ub) ==
  LET e == << Ev("TfLiteInterpreterGetInputTensorCount", d0.interpreter) >>
  IN  IF d0.interpreter = NULL
      THEN GetRes(0, NullTensor, IF ub = "crash" THEN "crashed" ELSE "returned", e)
      ELSE GetRes(h[d0.interpreter].m.inCount, NullTensor, "returned", e)

\* c_detector_output_tensor_count of the object_detection_tflite wrapper.
output_tensor_count(d0, h, ub) ==
  LET e == << Ev("TfLiteInterpreterGetOutputTensorCount", d0.interpreter) >>
  IN  IF d0.interpreter = NULL
      THEN GetRes(0, NullTensor, IF ub = "crash" THEN "crashed" ELSE "returned", e)
      ELSE GetRes(h[d0.interpreter].m.outCount, NullTensor, "returned", e)

\* c_detector_input_tensor: the index is handed on unchecked.
input_tensor(d0, h, index, ub) ==
  LET e == << Ev("TfLiteInterpreterGetInputTensor", d0.interpreter) >>
  IN  IF d0.interpreter = NULL
      THEN GetRes(0, NullTensor, IF ub = "crash" THEN "crashed" ELSE "returned", e)
      ELSE IF index >= h[d0.interpreter].m.inCount /\ ub = "crash"
      THEN GetRes(0, NullTensor, "crashed", e)
      ELSE GetRes(0, TfLiteInterpreterGetInputTensor(d0.interpreter, index),
                  "returned", e)

\* c_detector_output_tensor: the index is handed on unchecked.
output_tensor(d0, h, index, ub) ==
  LET e == << Ev("TfLiteInterpreterGetOutputTensor", d0.interpreter) >>
  IN  IF d0.interpreter = NULL
      THEN GetRes(0, NullTensor, IF ub = "crash" THEN "crashed" ELSE "returned", e)
      ELSE IF index >= h[d0.interpreter].m.outCount /\ ub = "crash"
      THEN GetRes(0, NullTensor, "crashed", e)
      ELSE GetRes(0, TfLiteInterpreterGetOutputTensor(d0.interpreter, index),
                  "returned", e)

FreeRes(h, outcome, events) == [heap |-> h, outcome |-> outcome, events |-> events]

\* c_detector_free of variant v; self is the CDetector allocation.
detector_free(v, self, d0, h0, ub) ==
  LET h1 == IF d0.interpreter # NULL THEN Destroy(h0, d0.interpreter) ELSE h0
      e1 == IF d0.interpreter # NULL
            THEN << Ev("TfLiteInterpreterDelete", d0.interpreter) >> ELSE <<>>
      freesTensor == v = "tflite" /\ d0.input_tensor # NullTensor
      e2 == IF freesTensor
            THEN Append(e1, Ev("TfLiteTensorFree", d0.input_tensor.interp)) ELSE e1
      dangling == freesTensor /\ ~Live(h1, d0.input_tensor.interp)
  IN  IF dangling /\ ub = "crash" THEN FreeRes(h1, "crashed", e2)
      ELSE
      LET h3 == IF d0.delegate # NULL THEN Destroy(h1, d0.delegate) ELSE h1
          e3 == IF d0.delegate # NULL
                THEN Append(e2, Ev("edgetpu_free_delegate", d0.delegate)) ELSE e2
      IN  FreeRes(Destroy(h3, self), "returned", Append(e3, Ev("free", self)))

----------------------------------------------------------------------------
(* The detector's operations *)

Self == 1

Usable == handle = "allocated" /\ ~crashed

\* The loads in which a call of the runtime that knows the reporter fails:
\* model creation, interpreter creation or tensor allocation.
Reported(m) ==
  \/ ~m.modelOk
  \/ /\ m.device => m.delegateOk
     /\ ~m.interpOk \/ m.allocStatus # kTfLiteOk

\* What a call never reads is fixed: a report goes with a failure, and the
\* outcome of fprintf is open only for a message with conversions.
ReportRead(failed, report, ub) ==
  /\ report # "none" => failed
  /\ report = "plain" => ub = "survive"

c_detector_allocate ==
  /\ handle = "none"
  /\ handle' = "allocated"
  /\ heap' = << Obj("CDetector") >>
  /\ d' = NullDetector
  /\ last' = [NoCall EXCEPT !.op = "allocate", !.events = << Ev("malloc", Self) >>]
  /\ UNCHANGED <<variant, reported, loadRets, crashed, usbVars, pokeVars>>

c_detector_load_model ==
  /\ Usable
  /\ Len(loadRets) < MaxLoads
  /\ \E m \in LoadInputs, report \in Reports, ub \in UBChoices :
       LET r == load_model(variant, d, heap, reported, m, report, ub)
       IN  /\ ReportRead(Reported(m), report, ub)
           /\ report = "none" => ub = "survive"
           /\ d' = r.d
           /\ heap' = r.heap
           /\ reported' = r.size
           /\ crashed' = (r.outcome = "crashed")
           /\ loadRets' = IF r.outcome = "crashed" THEN loadRets
                          ELSE Append(loadRets, r.ret)
           /\ last' = [NoCall EXCEPT !.op = "load", !.ret = r.ret,
                                     !.outcome = r.outcome,
                                     !.events = r.events, !.m = m, !.pre = d,
                                     !.preHeap = heap, !.preReported = reported]
  /\ UNCHANGED <<variant, handle, usbVars, pokeVars>>

c_detector_detect ==
  /\ Usable
  /\ variant = "tflite"
  /\ \E bufSize \in BufSizes, status \in InvokeStatuses, report \in Reports,
        ub \in UBChoices :
       LET r == detect(d, heap, bufSize, status, report, ub)
       IN  /\ ReportRead(status # kTfLiteOk, report, ub)
           /\ crashed' = (r.outcome = "crashed")
           /\ last' = [NoCall EXCEPT !.op = "detect", !.ret = r.ret,
                                     !.outcome = r.outcome, !.events = r.events,
                                     !.bufSize = bufSize, !.invoke = status,
                                     !.out = r.out, !.pre = d, !.preHeap = heap,
                                     !.preReported = reported]
  /\ UNCHANGED <<variant, handle, d, heap, reported, loadRets, usbVars, pokeVars>>

c_detector_invoke_interpreter ==
  /\ Usable
  /\ variant = "odt"
  /\ \E status \in InvokeStatuses, report \in Reports, ub \in UBChoices :
       LET r == invoke_interpreter(d, heap, status, report, ub)
       IN  /\ ReportRead(status # kTfLiteOk, report, ub)
           /\ crashed' = (r.outcome = "crashed")
           /\ last' = [NoCall EXCEPT !.op = "invoke", !.ret = r.ret,
                                     !.outcome = r.outcome, !.events = r.events,
                                     !.invoke = status, !.pre = d,
                                     !.preHeap = heap, !.preReported = reported]
  /\ UNCHANGED <<variant, handle, d, heap, reported, loadRets, usbVars, pokeVars>>

\* The getters of the object_detection_tflite wrapper read the handle and
\* change nothing.
Got(op, index, r) ==
  /\ crashed' = (r.outcome = "crashed")
  /\ last' = [NoCall EXCEPT !.op = op, !.ret = r.ret, !.outcome = r.outcome,
                            !.events = r.events, !.index = index,
                            !.tensor = r.tensor, !.pre = d, !.preHeap = heap,
                            !.preReported = reported]
  /\ UNCHANGED <<variant, handle, d, heap, reported, loadRets, usbVars, pokeVars>>

c_detector_input_tensor_count ==
  /\ Usable
  /\ variant = "odt"
  /\ \E ub \in UBChoices : Got("input_tensor_count", 0, input_tensor_count(d, heap, ub))

c_detector_output_tensor_count ==
  /\ Usable
  /\ variant = "odt"
  /\ \E ub \in UBChoices : Got("output_tensor_count", 0, output_tensor_count(d, heap, ub))

c_detector_input_tensor ==
  /\ Usable
  /\ variant = "odt"
  /\ \E index \in TensorIndices, ub \in UBChoices :
       Got("input_tensor", index, input_tensor(d, heap, index, ub))

c_detector_output_tensor ==
  /\ Usable
  /\ variant = "odt"
  /\ \E index \in TensorIndices, ub \in UBChoices :
       Got("output_tensor", index, output_tensor(d, heap, index, ub))

c_detector_free ==
  /\ Usable
  /\ \E ub \in UBChoices :
       LET r == detector_free(variant, Self, d, heap, ub)
       IN  /\ heap' = r.heap
           /\ crashed' = (r.outcome = "crashed")
           /\ handle' = IF r.outcome = "crashed" THEN handle ELSE "freed"
           /\ last' = [NoCall EXCEPT !.op = "free", !.outcome = r.outcome,
                                     !.events = r.events, !.pre = d,
                                     !.preHeap = heap, !.preReported = reported]
  /\ UNCHANGED <<variant, d, reported, loadRets, usbVars, pokeVars>>

----------------------------------------------------------------------------
(* c_probe_device and the mocked libusb *)

\* The probes look for a device on bus TargetBus; OtherBus stands for every
\* other bus.
TargetBus == 1
OtherBus == 2
PortVals == {1, 2}
LIBUSB_ERROR == 0 - 1

RECURSIVE SeqsUpTo(_, _)
SeqsUpTo(S, n) ==
  IF n = 0 THEN { <<>> }
  ELSE LET shorter == SeqsUpTo(S, n - 1)
       IN  shorter \cup { Append(q, x) : q \in { r \in shorter : Len(r) = n - 1 },
                                         x \in S }

Paths == SeqsUpTo(PortVals, MaxPathLen)

\* A device libusb enumerates: its bus, its port path, whether its port
\* numbers can be read and whether it can be opened.
UsbDevice(bus, ports, portsOk, openOk) ==
  [bus |-> bus, ports |-> ports, portsOk |-> portsOk, openOk |-> openOk]

\* The devices of the runs.  What the scan never reads of a device is fixed:
\* the path and the openness of a device on another bus, the path and the
\* openness of a device whose port numbers cannot be read.
UsbDevices ==
  { UsbDevice(TargetBus, q, TRUE, o) : q \in Paths, o \in BOOLEAN }
  \cup { UsbDevice(TargetBus, <<>>, FALSE, TRUE),
         UsbDevice(OtherBus, <<>>, TRUE, TRUE) }

DeviceLists == SeqsUpTo(UsbDevices, MaxDevices)

\* The targets of a probe: device_bus_number, device_ports_len and the bytes
\* behind device_ports.  A length outside 0..kMaxUsbPathDepth comes with an
\* empty buffer.
Targets ==
  { [bus |-> TargetBus, len |-> Len(q), ports |-> q] : q \in Paths }
  \cup { [bus |-> TargetBus, len |-> n, ports |-> <<>>] :
           n \in {0 - 1, kMaxUsbPathDepth + 1} }

\* The target of the probes that fail before they read it.
UnreadTarget == [bus |-> TargetBus, len |-> 0, ports |-> <<>>]

\* uint8_t port_numbers[kMaxUsbPathDepth] = {0} after libusb_get_port_numbers
port_numbers(dev) ==
  [i \in 1..kMaxUsbPathDepth |->
     IF i <= Len(dev.ports) THEN dev.ports[i] ELSE 0]

libusb_get_port_numbers(dev) ==
  IF dev.portsOk THEN Len(dev.ports) ELSE LIBUSB_ERROR

libusb_open(dev) == IF dev.openOk THEN 0 ELSE LIBUSB_ERROR

\* A comparison that looks at the first byte only.
memcmp_first_byte(a, b, n) ==
  IF \A i \in 1..(IF n < 1 THEN n ELSE 1) : a[i] = b[i] THEN 0 ELSE 1

memcmp(a, b, n) == IF \A i \in 1..n : a[i] = b[i] THEN 0 ELSE 1

\* A length test that skips only the devices with a shorter path.
ports_len_shorter(r, len) == r < len

\* A length test on the magnitude of the target length.
ports_len_differs_abs(r, len) == r # (IF len < 0 THEN 0 - len ELSE len)

\* The test *ret != device_ports_len.
ports_len_differs(r, len) == r # len

ProbeRes(ret, libret, events) ==
  [ret |-> ret, libret |-> libret, events |-> events]

Context == 1
DeviceList == 1

\* A probe that closes the device handle after it has released the list and
\* the context.
probe_found_close_last(e4, i, o) ==
  ProbeRes(0, o, e4 \o << Ev("libusb_free_device_list", DeviceList),
                          Ev("libusb_exit", Context),
                          Ev("libusb_close", i) >>)

\* The exit of c_probe_device after libusb_open succeeded on device i - 1.
probe_found(e4, i, o) ==
  ProbeRes(0, o, e4 \o << Ev("libusb_close", i),
                          Ev("libusb_free_device_list", DeviceList),
                          Ev("libusb_exit", Context) >>)

\* The loop of c_probe_device from device_index i - 1 on; libret is *ret.
RECURSIVE probe_scan(_, _, _, _, _)
probe_scan(devs, i, t, libret, events) ==
  IF i > Len(devs)
  THEN ProbeRes(ERROR_USB_NOT_FOUND, libret,
                events \o << Ev("libusb_free_device_list", DeviceList),
                             Ev("libusb_exit", Context) >>)
  ELSE
  LET dev == devs[i]
      e1  == Append(events, Ev("libusb_get_bus_number", i))
  IN  IF dev.bus # t.bus THEN probe_scan(devs, i + 1, t, libret, e1)
      ELSE
      LET r  == libusb_get_port_numbers(dev)
          e2 == Append(e1, Ev("libusb_get_port_numbers", i))
      IN  IF r < 0
          THEN ProbeRes(ERROR_USB_GET_PORT_NUMBERS, r,
                        e2 \o << Ev("libusb_free_device_list", DeviceList),
                                 Ev("libusb_exit", Context) >>)
          ELSE IF ports_len_differs(r, t.len) THEN probe_scan(devs, i + 1, t, r, e2)
          ELSE
          LET e3 == Append(e2, Ev("memcmp", t.len))
          IN  IF memcmp(port_numbers(dev), t.ports, t.len) = 0
              THEN LET o  == libusb_open(dev)
                       e4 == Append(e3, Ev("libusb_open", i))
                   IN  IF o # 0
                       THEN ProbeRes(ERROR_USB_OPEN_DEVICE, o,
                              Append(e4, Ev("libusb_free_device_list", DeviceList)))
                       ELSE probe_found(e4, i, o)
              ELSE probe_scan(devs, i + 1, t, r, e3)

\* c_probe_device: initOk and listOk are what libusb_init and
\* libusb_get_device_list answer.
probe_device(devs, t, initOk, listOk) ==
  LET e0 == << Ev("libusb_init", IF initOk THEN Context ELSE NULL) >>
      e1 == Append(e0, Ev("libusb_get_device_list",
                          IF listOk THEN DeviceList ELSE NULL))
  IN  IF ~initOk THEN ProbeRes(ERROR_USB_INIT, LIBUSB_ERROR, e0)
      ELSE IF ~listOk
      THEN ProbeRes(ERROR_USB_GET_DEVICE_LIST, LIBUSB_ERROR,
                    Append(e1, Ev("libusb_exit", Context)))
      ELSE probe_scan(devs, 1, t, Len(devs), e1)

NoProbe ==
  [op |-> "none", t |-> [bus |-> 0, len |-> 0, ports |-> <<>>],
   initOk |-> TRUE, listOk |-> TRUE, ret |-> 0, libret |-> 0, events |-> <<>>]

c_probe_device ==
  /\ probe.op = "none"
  /\ \E t \in Targets, initOk \in BOOLEAN, listOk \in BOOLEAN :
       /\ \/ initOk /\ listOk
          \/ initOk # listOk /\ t = UnreadTarget
       /\ LET r == probe_device(usbDevices, t, initOk, listOk)
          IN  probe' = [op |-> "probe", t |-> t, initOk |-> initOk,
                        listOk |-> listOk, ret |-> r.ret, libret |-> r.libret,
                        events |-> r.events]
  /\ UNCHANGED <<usbDevices, detVars, pokeVars>>

----------------------------------------------------------------------------
(* c_poke_devices and the mocked edgetpu library *)

EDGETPU_APEX_PCI == 0
EDGETPU_APEX_USB == 1

\* A struct edgetpu_device of the array, and whether the library can create
\* a delegate for it.
EdgeTpu(type, createOk) == [type |-> type, createOk |-> createOk]

EdgeTpus ==
  { EdgeTpu(ty, ok) : ty \in {EDGETPU_APEX_PCI, EDGETPU_APEX_USB},
                      ok \in BOOLEAN }

EdgeTpuLists == SeqsUpTo(EdgeTpus, MaxEdgeTpus)

\* The array edgetpu_list_devices returns.
DeviceArray == 1

\* edgetpu_free_delegate deletes its argument; deleting null does nothing.
edgetpu_free_delegate(h, p) == IF p = NULL THEN h ELSE Destroy(h, p)

PokeRes(h, events) == [heap |-> h, events |-> events]

\* The loop of c_poke_devices from index i - 1 on; h holds the delegates the
\* call has created.
RECURSIVE poke_loop(_, _, _, _)
poke_loop(devs, i, h, events) ==
  IF i > Len(devs) THEN PokeRes(h, events)
  ELSE
  LET delegate == IF devs[i].createOk THEN Len(h) + 1 ELSE NULL
      h1 == IF delegate # NULL THEN Append(h, Obj("delegate")) ELSE h
      e1 == Append(events, Ev("edgetpu_create_delegate", delegate))
  IN  IF delegate # NULL THEN poke_loop(devs, i + 1, h1, e1)
      ELSE poke_loop(devs, i + 1, edgetpu_free_delegate(h1, delegate),
                     Append(e1, Ev("edgetpu_free_delegate", delegate)))

\* c_poke_devices on the array devs.
poke_devices(devs) ==
  poke_loop(devs, 1, <<>>, << Ev("edgetpu_list_devices", DeviceArray) >>)

NoPoke == [op |-> "none", heap |-> <<>>, events |-> <<>>]

c_poke_devices ==
  /\ poke.op = "none"
  /\ LET r == poke_devices(edgetpus)
     IN  poke' = [op |-> "poke", heap |-> r.heap, events |-> r.events]
  /\ UNCHANGED <<edgetpus, detVars, usbVars>>

----------------------------------------------------------------------------
(* Specifications *)

Init ==
  /\ variant \in {"tflite", "odt"}
  /\ handle = "none"
  /\ d = NullDetector
  /\ heap = <<>>
  /\ reported = Unwritten
  /\ loadRets = <<>>
  /\ crashed = FALSE
  /\ last = NoCall
  /\ usbDevices = <<>>
  /\ probe = NoProbe
  /\ edgetpus = <<>>
  /\ poke = NoPoke

Next ==
  \/ c_detector_allocate
  \/ c_detector_load_model
  \/ c_detector_detect
  \/ c_detector_invoke_interpreter
  \/ c_detector_input_tensor_count
  \/ c_detector_output_tensor_count
  \/ c_detector_input_tensor
  \/ c_detector_output_tensor
  \/ c_detector_free

Spec == Init /\ [][Next]_vars

InitProbe ==
  /\ variant = "tflite"
  /\ handle = "none"
  /\ d = NullDetector
  /\ heap = <<>>
  /\ reported = Unwritten
  /\ loadRets = <<>>
  /\ crashed = FALSE
  /\ last = NoCall
  /\ usbDevices \in DeviceLists
  /\ probe = NoProbe
  /\ edgetpus = <<>>
  /\ poke = NoPoke

NextProbe == c_probe_device

SpecProbe == InitProbe /\ [][NextProbe]_vars

InitPoke ==
  /\ variant = "tflite"
  /\ handle = "none"
  /\ d = NullDetector
  /\ heap = <<>>
  /\ reported = Unwritten
  /\ loadRets = <<>>
  /\ crashed = FALSE
  /\ last = NoCall
  /\ usbDevices = <<>>
  /\ probe = NoProbe
  /\ edgetpus \in EdgeTpuLists
  /\ poke = NoPoke

NextPoke == c_poke_devices

SpecPoke == InitPoke /\ [][NextPoke]_vars

----------------------------------------------------------------------------
(* Properties *)

HasEvent(events, fn) == \E i \in 1..Len(events) : events[i].fn = fn

Count(events, fn) == Cardinality({ i \in 1..Len(events) : events[i].fn = fn })

Pos(events, fn) == CHOOSE i \in 1..Len(events) : events[i].fn = fn

\* The runtime reports success everywhere, 1 uint8 input and 4 float32 outputs.
ExpectedModel(m) ==
  /\ m.modelOk /\ (m.device => m.delegateOk) /\ m.interpOk
  /\ m.allocStatus = kTfLiteOk
  /\ m.inCount = 1 /\ m.inType = kTfLiteUInt8
  /\ m.outCount = 4 /\ \A i \in 1..4 : m.outTypes[i] = kTfLiteFloat32

\* What the runtime reports for output i - 1 of interpreter p.
RuntimeViews(p) ==
  [data |-> [i \in 1..4 |-> p * 100 + 50 + i], size |-> [i \in 1..4 |-> 4 * i]]

FirstLoadOfExpected ==
  /\ variant = "tflite" /\ last.op = "load" /\ Len(loadRets) = 1
  /\ ExpectedModel(last.m)

DetectAfterExpected ==
  /\ last.op = "detect" /\ loadRets = <<0>>
  /\ ExpectedModel(heap[d.interpreter].m)
  /\ last.bufSize = reported

\* C1 (as stated): on a model of the expected shape the first load returns 0
\* and reports the input tensor's byte size, and a detect with a buffer of
\* that size returns 0 with the runtime's four data pointers and sizes.
C1_Original ==
  /\ FirstLoadOfExpected => last.ret = 0 /\ reported = last.m.inSize
  /\ DetectAfterExpected =>
       /\ last.outcome = "returned" /\ last.ret = 0
       /\ last.out = RuntimeViews(d.interpreter)

\* C1 (amended): the same, for the detect calls in which the runtime's
\* TfLiteInterpreterInvoke returns 0; when the invoke fails, detect writes
\* nothing and, unless the process dies in the reporter the runtime calls
\* back, returns the status of the invoke.
C1_Amended ==
  /\ FirstLoadOfExpected => last.ret = 0 /\ reported = last.m.inSize
  /\ DetectAfterExpected /\ last.invoke = kTfLiteOk =>
       /\ last.outcome = "returned" /\ last.ret = 0
       /\ last.out = RuntimeViews(d.interpreter)
  /\ DetectAfterExpected /\ last.invoke # kTfLiteOk =>
       /\ last.out = NoOut
       /\ last.outcome = "returned" => last.ret = last.invoke

C1_Witness ==
  /\ DetectAfterExpected /\ last.invoke = kTfLiteOk /\ last.ret = 0
  /\ last.out.size = <<4, 8, 12, 16>>

LoadedOnce == \E i \in 1..Len(loadRets) : loadRets[i] = 0

\* C2: on a handle with a successful load, a detect whose buffer length is
\* not the reported input byte size returns non-zero and never reaches
\* TfLiteInterpreterInvoke.
C2_SizeMismatchFails ==
  (last.op = "detect" /\ LoadedOnce /\ last.bufSize # last.preReported) =>
     /\ last.outcome = "returned" /\ last.ret # 0
     /\ ~HasEvent(last.events, "TfLiteInterpreterInvoke")
     /\ last.out = NoOut

C2_Witness ==
  /\ last.op = "detect" /\ LoadedOnce /\ last.bufSize # last.preReported
  /\ last.ret = kTfLiteError

\* C3 (as stated): a detect or invoke on a handle that was never loaded
\* returns an error, and no runtime function is called with the null
\* interpreter or the null input tensor.
C3_NeverLoadedFailsCleanly ==
  (last.op \in {"detect", "invoke"} /\ loadRets = <<>>) =>
     /\ last.outcome = "returned" /\ last.ret # 0
     /\ \A i \in 1..Len(last.events) : last.events[i].arg # NULL

\* The callbacks the runtime makes into the wrapper.
Callbacks == { "reporter", "fprintf" }

\* C4: when model creation returns null, the load returns 10000 after that
\* one runtime call, creates nothing and leaves the handle's fields as they
\* were (null on a fresh handle); a free that follows releases only the
\* handle allocation.
C4_ModelFailureLeavesHandle ==
  /\ (last.op = "load" /\ ~last.m.modelOk /\ last.outcome = "returned") =>
       /\ last.ret = ERROR_CREATE_FROM_FILE
       /\ last.events[1] = Ev("TfLiteModelCreateFromFileWithErrorReporter", NULL)
       /\ \A i \in 2..Len(last.events) : last.events[i].fn \in Callbacks
       /\ heap = last.preHeap
       /\ d = last.pre
       /\ (Len(loadRets) = 1 => d = NullDetector)
  /\ (last.op = "free" /\ loadRets = << ERROR_CREATE_FROM_FILE >>) =>
       /\ last.outcome = "returned"
       /\ last.events = << Ev("free", Self) >>
       /\ heap = << [Obj("CDetector") EXCEPT !.deleted = 1] >>

C4_Witness ==
  /\ last.op = "free" /\ loadRets = << ERROR_CREATE_FROM_FILE >>
  /\ handle = "freed"

Probed == probe.op = "probe" /\ probe.initOk /\ probe.listOk

InRange(t) == t.len \in 0..kMaxUsbPathDepth

\* Device i of the list has the target's bus and exactly its port path.
Matches(i, t) ==
  /\ usbDevices[i].portsOk
  /\ usbDevices[i].bus = t.bus
  /\ usbDevices[i].ports = t.ports

\* Device i ends the scan for target t: it is on the target bus and either
\* its port numbers cannot be read or they are the target's.
Terminal(i, t) ==
  /\ usbDevices[i].bus = t.bus
  /\ ~usbDevices[i].portsOk \/ usbDevices[i].ports = t.ports

Terminals(t) == { i \in 1..Len(usbDevices) : Terminal(i, t) }

FirstTerminal(t) == CHOOSE i \in Terminals(t) : \A j \in Terminals(t) : i <= j

\* C5 (as stated): the probe returns 0 if and only if the list holds a
\* device with the target's bus and port path that can be opened, and it
\* returns not-found if no device has that bus and path.
C5_Original ==
  (Probed /\ InRange(probe.t)) =>
     /\ probe.ret = 0 <=>
          \E i \in 1..Len(usbDevices) : Matches(i, probe.t) /\ usbDevices[i].openOk
     /\ (~\E i \in 1..Len(usbDevices) : Matches(i, probe.t)) =>
          probe.ret = ERROR_USB_NOT_FOUND

\* C5 (amended): the probe returns 0 if and only if the first device in
\* enumeration order that is on the target bus and either fails the port
\* read or has the target's port path is a device with the target's path
\* that can be opened; it returns not-found if and only if there is no such
\* device at all.
C5_Amended ==
  (Probed /\ InRange(probe.t)) =>
     /\ probe.ret = 0 <=>
          /\ Terminals(probe.t) # {}
          /\ Matches(FirstTerminal(probe.t), probe.t)
          /\ usbDevices[FirstTerminal(probe.t)].openOk
     /\ probe.ret = ERROR_USB_NOT_FOUND <=> Terminals(probe.t) = {}

C5_Witness ==
  /\ Probed /\ probe.ret = 0 /\ Len(probe.t.ports) = 2
  /\ Len(usbDevices) = 2 /\ FirstTerminal(probe.t) = 2
  /\ usbDevices[1].bus = probe.t.bus

\* C6 (as stated): when c_probe_device returns, the context it initialised
\* has been released by libusb_exit once, the device list it obtained by
\* libusb_free_device_list once, and the device it opened by libusb_close
\* once.
C6_ProbeReleasesAll ==
  probe.op = "probe" =>
     /\ Count(probe.events, "libusb_exit") = (IF probe.initOk THEN 1 ELSE 0)
     /\ Count(probe.events, "libusb_free_device_list") =
          (IF probe.initOk /\ probe.listOk THEN 1 ELSE 0)
     /\ Count(probe.events, "libusb_close") =
          Cardinality({ i \in 1..Len(probe.events) :
                          /\ probe.events[i].fn = "libusb_open"
                          /\ usbDevices[probe.events[i].arg].openOk })

\* C7 (as stated): c_detector_free deletes the interpreter first, frees the
\* delegate after it and the handle allocation last, and in no state has a
\* delegate been freed while an interpreter created with it is live.
C7_FreeOrder ==
  /\ last.op = "free" =>
       /\ last.pre.interpreter # NULL =>
            last.events[1] = Ev("TfLiteInterpreterDelete", last.pre.interpreter)
       /\ (last.pre.delegate # NULL /\ last.outcome = "returned") =>
            /\ HasEvent(last.events, "edgetpu_free_delegate")
            /\ last.pre.interpreter # NULL =>
                 Pos(last.events, "TfLiteInterpreterDelete")
                   < Pos(last.events, "edgetpu_free_delegate")
       /\ HasEvent(last.events, "free") =>
            Pos(last.events, "free") = Len(last.events)
  /\ \A p \in 1..Len(heap) :
       (heap[p].kind = "interpreter" /\ heap[p].deleted = 0
          /\ heap[p].deleg # NULL) => heap[heap[p].deleg].deleted = 0

\* C8 (as stated): after allocate, one load, any detects and free, each
\* model, options, delegate and interpreter created has been destroyed exactly
\* once; the model and the options are already deleted when the load returns.
C8_NoLeak ==
  /\ (last.op = "load" /\ Len(loadRets) = 1) =>
       \A p \in 1..Len(heap) :
         heap[p].kind \in {"model", "options"} => heap[p].deleted = 1
  /\ (handle = "freed" /\ Len(loadRets) = 1) =>
       \A p \in 1..Len(heap) : heap[p].deleted = 1

\* C9 (as stated): a load on a handle that holds the interpreter of an
\* earlier successful load returns an error and leaves the handle's
\* interpreter and delegate as they were.
C9_ReloadRejected ==
  (/\ last.op = "load" /\ last.pre.interpreter # NULL
   /\ \E i \in 1..(Len(loadRets) - 1) : loadRets[i] = 0) =>
     /\ last.ret # 0
     /\ d.interpreter = last.pre.interpreter
     /\ d.delegate = last.pre.delegate

Written(out) ==
  { i \in 1..4 : out.data[i] # Unwritten } \cup
  { 4 + i : i \in { j \in 1..4 : out.size[j] # Unwritten } }

\* C10: a detect that returns non-zero has written none of its eight output
\* parameters, and a detect that returns 0 has written all eight.
C10_AllOrNothing ==
  (last.op = "detect" /\ last.outcome = "returned") =>
     /\ last.ret # 0 => Written(last.out) = {}
     /\ last.ret = 0 => Written(last.out) = 1..8

C10_Witness ==
  /\ last.op = "detect" /\ last.outcome = "returned"
  /\ last.ret = ERROR_OUTPUT_TENSOR_TYPE
  /\ Written(last.out) = {}

\* A load of the tflite wrapper in which the runtime created everything and
\* allocated the tensors.
AllocatedLoad ==
  /\ variant = "tflite" /\ last.op = "load"
  /\ last.m.modelOk /\ (last.m.device => last.m.delegateOk) /\ last.m.interpOk
  /\ last.m.allocStatus = kTfLiteOk

\* The error of the first shape check that model m fails, 0 if it fails none.
ShapeVerdict(m) ==
  IF m.inCount # 1 THEN ERROR_INPUT_TENSOR_COUNT
  ELSE IF m.inType # kTfLiteUInt8 THEN ERROR_INPUT_TENSOR_TYPE
  ELSE IF m.outCount # NumOutputs THEN ERROR_OUTPUT_TENSOR_COUNT
  ELSE 0

\* C11: once tensor allocation succeeded, the load of the tflite wrapper
\* returns the error of the first failing check among input count = 1 (10002),
\* input type = uint8 (10003), output count = 4 (10004); it returns 0 exactly
\* when all three pass, and then the cached input tensor is input 0 of the
\* handle's interpreter and the reported size is that tensor's byte size.
C11_ShapeChecksInOrder ==
  AllocatedLoad =>
     /\ last.ret = ShapeVerdict(last.m)
     /\ last.ret = 0 <=>
          /\ last.m.inCount = 1 /\ last.m.inType = kTfLiteUInt8
          /\ last.m.outCount = NumOutputs
     /\ last.ret = 0 =>
          /\ d.input_tensor = [interp |-> d.interpreter, out |-> FALSE, idx |-> 0]
          /\ heap[d.interpreter].m = last.m
          /\ reported = last.m.inSize

C11_Witness ==
  /\ AllocatedLoad
  /\ last.m.inCount = 1 /\ last.m.inType # kTfLiteUInt8
  /\ last.m.outCount # NumOutputs
  /\ last.ret = ERROR_INPUT_TENSOR_TYPE

\* A detect whose copy and invoke succeeded, on an interpreter that has the
\* four output tensors 0..3.
DetectPastInvoke ==
  /\ last.op = "detect"
  /\ d.input_tensor # NullTensor /\ d.interpreter # NULL
  /\ TfLiteTensorCopyFromBuffer(heap, d.input_tensor, last.bufSize) = kTfLiteOk
  /\ TfLiteInterpreterInvoke(heap, d.interpreter, last.invoke) = kTfLiteOk
  /\ heap[d.interpreter].m.outCount = NumOutputs

OutputTypes == heap[d.interpreter].m.outTypes

\* C12: after a successful copy and invoke, detect returns the output type
\* error exactly when none of the outputs 0..3 is float32; when at least one
\* of them is float32 it returns 0 with all four views, whatever the types of
\* the others.
C12_TypeErrorOnlyIfNoFloat ==
  DetectPastInvoke =>
     /\ last.outcome = "returned"
     /\ last.ret = ERROR_OUTPUT_TENSOR_TYPE <=>
          \A i \in 1..NumOutputs : OutputTypes[i] # kTfLiteFloat32
     /\ (\E i \in 1..NumOutputs : OutputTypes[i] = kTfLiteFloat32) =>
          /\ last.ret = 0
          /\ last.out = RuntimeViews(d.interpreter)

C12_Witness ==
  /\ DetectPastInvoke
  /\ OutputTypes = <<kTfLiteUInt8, kTfLiteUInt8, kTfLiteFloat32, kTfLiteUInt8>>
  /\ last.ret = 0 /\ Written(last.out) = 1..8

\* What the load does about the delegate once it is past model creation.
DelegateSteps ==
  /\ (last.m.modelOk /\ last.m.device /\ last.m.delegateOk) =>
       /\ d.delegate # NULL /\ heap[d.delegate].kind = "delegate"
       /\ Count(last.events, "TfLiteInterpreterOptionsAddDelegate") = 1
       /\ Count(last.events, "TfLiteInterpreterCreate") = 1
       /\ last.events[Pos(last.events, "TfLiteInterpreterOptionsAddDelegate")].arg
            = d.delegate
       /\ Pos(last.events, "TfLiteInterpreterOptionsAddDelegate")
            < Pos(last.events, "TfLiteInterpreterCreate")
  /\ (last.m.modelOk /\ last.m.device /\ ~last.m.delegateOk) =>
       /\ last.ret = (IF variant = "tflite" THEN ERROR_EDGETPU_DELEGATE_CREATE
                      ELSE ODT_ERROR_EDGETPU_DELEGATE_CREATE)
       /\ ~HasEvent(last.events, "TfLiteInterpreterCreate")
  /\ ~last.m.device =>
       /\ ~HasEvent(last.events, "TfLiteInterpreterOptionsAddDelegate")
       /\ d.delegate = last.pre.delegate
       /\ last.pre.delegate = NULL => d.delegate = NULL

\* C13 (as stated): a load calls edgetpu_create_delegate if and only if a
\* non-null device identifier is passed; a created delegate is registered
\* with the options before TfLiteInterpreterCreate; a failed creation returns
\* the delegate-creation error without TfLiteInterpreterCreate; without a
\* device identifier the handle's delegate stays null.
C13_Original ==
  last.op = "load" =>
     /\ HasEvent(last.events, "edgetpu_create_delegate") <=> last.m.device
     /\ DelegateSteps

\* C13 (amended): the same, with the delegate created if and only if the
\* model was created and a non-null device identifier is passed; a load whose
\* model creation fails ends before it creates any delegate.
C13_Amended ==
  last.op = "load" =>
     /\ HasEvent(last.events, "edgetpu_create_delegate") <=>
          (last.m.modelOk /\ last.m.device)
     /\ (~last.m.modelOk /\ last.m.device) =>
          /\ last.outcome = "returned" => last.ret = ERROR_CREATE_FROM_FILE
          /\ d.delegate = last.pre.delegate
     /\ DelegateSteps

C13_Witness ==
  /\ last.op = "load" /\ last.outcome = "returned"
  /\ last.m.device /\ last.m.delegateOk /\ last.ret = 0
  /\ d.delegate # NULL /\ heap[d.interpreter].deleg = d.delegate
  /\ Pos(last.events, "edgetpu_create_delegate")
       < Pos(last.events, "TfLiteInterpreterOptionsAddDelegate")

\* The delegates c_poke_devices created, by the position of their creation.
PokeCreations ==
  { i \in 1..Len(poke.events) :
      /\ poke.events[i].fn = "edgetpu_create_delegate"
      /\ poke.events[i].arg # NULL }

\* C14 (as stated): c_poke_devices creates one delegate per enumerated
\* device; a delegate that was created is freed, once, right after its
\* creation; edgetpu_free_delegate is not called for a creation that failed;
\* when the call returns no delegate it created is live.
C14_PokeFreesCreated ==
  poke.op = "poke" =>
     /\ Count(poke.events, "edgetpu_create_delegate") = Len(edgetpus)
     /\ \A i \in PokeCreations :
          /\ i < Len(poke.events)
          /\ poke.events[i + 1] = Ev("edgetpu_free_delegate", poke.events[i].arg)
     /\ \A i \in 1..Len(poke.events) :
          poke.events[i].fn = "edgetpu_free_delegate" => poke.events[i].arg # NULL
     /\ \A p \in 1..Len(poke.heap) : poke.heap[p].deleted = 1

\* C20 (as stated): c_poke_devices releases the array it got from
\* edgetpu_list_devices with edgetpu_free_devices, once, before it returns,
\* whatever the number of devices.
C20_DeviceArrayFreed ==
  poke.op = "poke" =>
     /\ poke.events[1] = Ev("edgetpu_list_devices", DeviceArray)
     /\ Count(poke.events, "edgetpu_free_devices") = 1
     /\ poke.events[Len(poke.events)] = Ev("edgetpu_free_devices", DeviceArray)

\* The error codes c_probe_device returns on the devices and targets of the
\* model.
ProbeReturned ==
  { probe_device(devs, t, initOk, listOk).ret :
      devs \in SeqsUpTo(UsbDevices, 1), t \in Targets,
      initOk \in BOOLEAN, listOk \in BOOLEAN } \ {0}

\* The codes of its own that c_detector_load_model of variant v returns;
\* kTfLiteError is the runtime's status, handed through.
LoadReturned(v) ==
  { load_model(v, NullDetector, << Obj("CDetector") >>, Unwritten, m,
               "none", "survive").ret :
      m \in LoadInputs } \ {0, kTfLiteError}

\* C15 (as stated): no integer is returned as an error code of its own by
\* more than one of c_detector_load_model, c_detector_detect and
\* c_probe_device.
C15_DisjointErrorCodes ==
  /\ (last.op = "detect" /\ last.outcome = "returned"
        /\ last.ret = ERROR_OUTPUT_TENSOR_TYPE) =>
       /\ last.ret \notin ProbeReturned
       /\ last.ret \notin LoadReturned(variant)
  /\ (last.op = "load" /\ last.ret \in LoadReturned(variant)) =>
       /\ last.ret \notin ProbeReturned
       /\ last.ret # ERROR_OUTPUT_TENSOR_TYPE

TensorCalls ==
  { "TfLiteTensorFree", "TfLiteTensorCopyFromBuffer", "TfLiteTensorByteSize",
    "TfLiteTensorType", "TfLiteTensorData" }

\* C16 (as stated): no call of the wrapper passes a tensor of an interpreter
\* to the runtime after TfLiteInterpreterDelete was called on that
\* interpreter; in particular the cached input tensor is not freed after
\* the interpreter that owns it.
C16_TensorNotUsedAfterDelete ==
  /\ \A i, j \in 1..Len(last.events) :
       (/\ i < j
        /\ last.events[i].fn = "TfLiteInterpreterDelete"
        /\ last.events[j].fn \in TensorCalls) =>
          last.events[j].arg # last.events[i].arg
  /\ (last.op = "detect" /\ last.pre.input_tensor # NullTensor) =>
       last.preHeap[last.pre.input_tensor.interp].deleted = 0

\* C17 (as stated): a load that returns non-zero leaves the handle's
\* interpreter, input tensor and delegate as they were, and a detect on a
\* handle whose only load failed does not reach TfLiteInterpreterInvoke.
C17_FailedLoadLeavesHandle ==
  /\ (last.op = "load" /\ last.ret # 0) => d = last.pre
  /\ (/\ last.op \in {"detect", "invoke"}
      /\ Len(loadRets) = 1 /\ loadRets[1] # 0) =>
       /\ d = NullDetector
       /\ ~HasEvent(last.events, "TfLiteInterpreterInvoke")

\* The positions of the libusb_open calls of the probe that gave a handle.
Opened ==
  { k \in 1..Len(probe.events) :
      /\ probe.events[k].fn = "libusb_open"
      /\ usbDevices[probe.events[k].arg].openOk }

\* C18: a probe opens at most one device; when the open succeeds the probe
\* ends with exactly: device opened, its handle closed, device list
\* released, context released, and returns 0; it returns 0 in no other way,
\* and in no case does it return with a handle it has not closed.
C18_FoundOrder ==
  probe.op = "probe" =>
     /\ Count(probe.events, "libusb_open") <= 1
     /\ probe.ret = 0 <=> Opened # {}
     /\ \A k \in Opened :
          /\ k = Len(probe.events) - 3
          /\ probe.events[k + 1] = Ev("libusb_close", probe.events[k].arg)
          /\ probe.events[k + 2] = Ev("libusb_free_device_list", DeviceList)
          /\ probe.events[k + 3] = Ev("libusb_exit", Context)
     /\ Count(probe.events, "libusb_close") = Cardinality(Opened)

C18_Witness ==
  /\ probe.op = "probe" /\ probe.ret = 0
  /\ Len(usbDevices) = 2
  /\ \E k \in Opened : probe.events[k].arg = 2
  /\ HasEvent(probe.events, "libusb_close")

\* Device i has the target's bus, a readable port path of the target's
\* length and the target's port bytes.
FullMatch(i, t) ==
  /\ usbDevices[i].bus = t.bus
  /\ usbDevices[i].portsOk
  /\ Len(usbDevices[i].ports) = t.len
  /\ \A k \in 1..t.len : usbDevices[i].ports[k] = t.ports[k]

\* Device i ends the scan: it is on the target's bus and its port numbers
\* cannot be read, or it matches the target.
EndsScan(i, t) ==
  \/ usbDevices[i].bus = t.bus /\ ~usbDevices[i].portsOk
  \/ FullMatch(i, t)

\* The devices the probe looks at: all of them up to the first that ends
\* the scan.
ScannedUpTo(t) ==
  LET ends == { i \in 1..Len(usbDevices) : EndsScan(i, t) }
  IN  IF ends = {} THEN Len(usbDevices)
      ELSE CHOOSE i \in ends : \A j \in ends : i <= j

DeviceCalls == { "libusb_get_bus_number", "libusb_get_port_numbers", "libusb_open" }

\* The calls the probe makes on device i, in order.
CallsOn(i) ==
  SelectSeq([k \in 1..Len(probe.events) |->
               IF probe.events[k].fn \in DeviceCalls /\ probe.events[k].arg = i
               THEN probe.events[k].fn ELSE ""],
            LAMBDA f : f # "")

\* C19: the probe visits the devices in enumeration order up to the first
\* one that ends the scan and no further; a device on another bus gets
\* neither a port read nor an open; a device of the target's bus with a path
\* of another length gets a port read and no open; a port read that fails
\* ends the scan with the port-read error; libusb_open is called only on a
\* device that matches in bus, length and every port byte.
C19_ScanOrder ==
  Probed =>
     /\ \A k, l \in 1..Len(probe.events) :
          (/\ k < l /\ probe.events[k].fn \in DeviceCalls
           /\ probe.events[l].fn \in DeviceCalls) =>
             probe.events[k].arg <= probe.events[l].arg
     /\ \A i \in 1..Len(usbDevices) :
          LET dev == usbDevices[i]
          IN  /\ i > ScannedUpTo(probe.t) => CallsOn(i) = <<>>
              /\ i <= ScannedUpTo(probe.t) =>
                   /\ CallsOn(i)[1] = "libusb_get_bus_number"
                   /\ dev.bus # probe.t.bus =>
                        CallsOn(i) = << "libusb_get_bus_number" >>
                   /\ (dev.bus = probe.t.bus /\ ~FullMatch(i, probe.t)) =>
                        CallsOn(i) = << "libusb_get_bus_number",
                                       "libusb_get_port_numbers" >>
                   /\ (dev.bus = probe.t.bus /\ ~dev.portsOk) =>
                        probe.ret = ERROR_USB_GET_PORT_NUMBERS
                   /\ FullMatch(i, probe.t) =>
                        CallsOn(i) = << "libusb_get_bus_number",
                                       "libusb_get_port_numbers", "libusb_open" >>

C19_Witness ==
  /\ Probed /\ Len(usbDevices) = 2 /\ probe.t.len = 2
  /\ usbDevices[1].bus = probe.t.bus /\ usbDevices[1].portsOk
  /\ Len(usbDevices[1].ports) = 2 /\ usbDevices[1].ports[1] = probe.t.ports[1]
  /\ ~FullMatch(1, probe.t)
  /\ FullMatch(2, probe.t)
  /\ CallsOn(2) = << "libusb_get_bus_number", "libusb_get_port_numbers",
                     "libusb_open" >>

\* The lengths the probe hands to memcmp.
MemcmpLens ==
  { probe.events[k].arg : k \in { j \in 1..Len(probe.events) :
                                    probe.events[j].fn = "memcmp" } }

\* C21: whatever device_ports_len is (negative, 0..7, above 7), the probe
\* compares port bytes only over a length in 0..7, which is also the number
\* of ports read for the device it compares, so never past the 7 bytes of
\* port_numbers; with a length outside 0..7 it compares nothing, opens
\* nothing and does not return 0.
C21_CompareWithinBuffer ==
  probe.op = "probe" =>
     /\ MemcmpLens \subseteq 0..kMaxUsbPathDepth
     /\ \A k \in 2..Len(probe.events) :
          probe.events[k].fn = "memcmp" =>
            /\ probe.events[k - 1].fn = "libusb_get_port_numbers"
            /\ probe.events[k].arg =
                 libusb_get_port_numbers(usbDevices[probe.events[k - 1].arg])
     /\ ~InRange(probe.t) =>
          /\ MemcmpLens = {}
          /\ ~HasEvent(probe.events, "libusb_open")
          /\ probe.ret # 0
          /\ \A i \in 1..Len(usbDevices) : ~FullMatch(i, probe.t)

C21_Witness ==
  /\ Probed /\ probe.t.len < 0
  /\ Len(usbDevices) = 2
  /\ \A i \in 1..2 : usbDevices[i].bus = probe.t.bus /\ usbDevices[i].portsOk
  /\ Len(usbDevices[1].ports) = 1
  /\ Count(probe.events, "libusb_get_port_numbers") = 2
  /\ probe.ret = ERROR_USB_NOT_FOUND

====
